---------------------------- MODULE Spec2Model ----------------------------
(***************************************************************************)
(* A model of the algorithmic core of iocraft's `picker` example and of    *)
(* `strip_ansi`:                                                           *)
(*   - find_sgr / escape_chars_to_styling (SGR parser, examples/picker.rs) *)
(*   - strip_ansi (regex filter, packages/iocraft/src/strip_ansi.rs)       *)
(*   - matches and the Picker's filter (examples/picker.rs)                *)
(*   - the Results component's selection / scroll state                    *)
(*   - the Preview component's asynchronous page fetch                     *)
(* Characters are one-character strings, except ESC (U+001B), BEL (U+0007),*)
(* CSI8 (U+009B) and ST8 (U+009C), which are named.  A Rust string is a    *)
(* sequence of characters.                                                 *)
(***************************************************************************)
EXTENDS Integers, Sequences, FiniteSets, TLC

VARIABLES
    \* escape_chars_to_styling / find_sgr
    content,      \* the &str handed to escape_chars_to_styling
    sgr,          \* result of find_sgr on the fresh iterator over content
    styled,       \* result of escape_chars_to_styling(content)
    sgrPc,        \* "start" | "done"
    \* strip_ansi
    string,       \* the &str handed to strip_ansi
    stripped,     \* strip_ansi(string)
    restripped,   \* strip_ansi(strip_ansi(string))
    stripPc,      \* "start" | "once" | "twice"
    \* matches and the Picker's filter
    key,          \* matches' key: the text searched
    query,        \* matches' query
    matched,      \* matches(key, query)
    filtered,     \* the Picker's elms for prompt = query: the keys kept
    matchPc,      \* "start" | "done"
    \* Picker and Results
    prompt,       \* Picker's prompt state (the TextInput's value)
    elms,         \* the keys of Picker's elms as of the last render
    current_idx,  \* the selection, shared by Picker and Results
    beginning,    \* Results' scroll offset
    height,       \* rows inside Results' border, from use_component_rect
    nprops,       \* props.elms.len() captured by Results' key handler
    current,      \* Picker's key memo: the props.current handed to Preview
    crashed,      \* a panic unwound the render loop
    event,        \* the last step: "render", a key code, "type", ...
    \* Preview
    width,        \* Preview's width: <<>> (None) or <<w>> (Some(w))
    inflight,     \* the update_page futures spawned and not yet completed
    issued,       \* the number of fetches started so far
    requested,    \* the key and width of the fetch started last
    contents,     \* Preview's contents state
    previewCrashed \* a panic in an update_page future

sgrVars == <<content, sgr, styled, sgrPc>>
stripVars == <<string, stripped, restripped, stripPc>>
matchVars == <<key, query, matched, filtered, matchPc>>
resultsVars ==
    <<prompt, elms, current_idx, beginning, height, nprops, crashed, event>>
viewVars == <<resultsVars, current>>
previewVars == <<width, inflight, issued, requested, contents, previewCrashed>>
vars == <<sgrVars, stripVars, matchVars, viewVars, previewVars>>

ESC == "ESC"
BEL == "BEL"
CSI8 == "CSI8"
ST8 == "ST8"

Digits == {"0", "1", "2", "3", "4", "5", "6", "7", "8", "9"}

DigitVal(c) ==
    CASE c = "0" -> 0 [] c = "1" -> 1 [] c = "2" -> 2 [] c = "3" -> 3
      [] c = "4" -> 4 [] c = "5" -> 5 [] c = "6" -> 6 [] c = "7" -> 7
      [] c = "8" -> 8 [] c = "9" -> 9

Min(a, b) == IF a < b THEN a ELSE b

\* the first k characters of s: content.chars().take(k)
Take(s, k) == SubSeq(s, 1, Min(k, Len(s)))

RECURSIVE Concat(_)
Concat(ss) == IF ss = <<>> THEN <<>> ELSE Head(ss) \o Concat(Tail(ss))

(***************************************************************************)
(* Bounds of the inputs.                                                   *)
(***************************************************************************)
MaxTokens == 3
MaxKeyLen == 6
MaxQueryLen == 2
NPages == 12
MaxPromptLen == 2
MinHeight == 3
PageHeight == 10
MaxRequests == 3
MaxPreviewKey == 2
MaxWidth == 2
MaxItems == 25

(***************************************************************************)
(* str::parse::<usize>(): an optional leading '+', then one or more ASCII  *)
(* digits.  Anything else is Err.  (The digit runs of this model stay far  *)
(* below usize::MAX, so the overflow error is not reachable here.)         *)
(***************************************************************************)
RECURSIVE DecimalValue(_, _)
DecimalValue(ds, acc) ==
    IF ds = <<>> THEN acc
    ELSE DecimalValue(Tail(ds), acc * 10 + DigitVal(Head(ds)))

ParseUsize(str) ==
    LET body == IF str # <<>> /\ Head(str) = "+" THEN Tail(str) ELSE str
    IN  IF body # <<>> /\ \A i \in 1..Len(body) : body[i] \in Digits
        THEN [ok |-> TRUE, val |-> DecimalValue(body, 0)]
        ELSE [ok |-> FALSE, val |-> 0]

(***************************************************************************)
(* find_sgr(it, e).  The iterator is the pair (s, i): i is the 1-based     *)
(* index of the next character it yields.  The result records the outcome  *)
(* ("None", "Some" or "Panic" for the unwrap of a failed parse), the value *)
(* and the iterator position afterwards.                                   *)
(***************************************************************************)
\* it.take_while(|x| *x != e): the index of the first e at or after i,
\* or Len(s) + 1 when there is none
RECURSIVE TakeWhileEnd(_, _, _)
TakeWhileEnd(s, i, e) ==
    IF i > Len(s) \/ s[i] = e THEN i ELSE TakeWhileEnd(s, i + 1, e)

find_sgr(s, i, e) ==
    IF i > Len(s) THEN [kind |-> "None", val |-> 0, pos |-> i]
    ELSE IF s[i] # ESC THEN [kind |-> "None", val |-> 0, pos |-> i]
    \* it.next().unwrap() consumed ESC; the second it.next() consumes c
    ELSE IF i + 1 > Len(s) THEN [kind |-> "None", val |-> 0, pos |-> i + 1]
    ELSE IF s[i + 1] # "[" THEN [kind |-> "None", val |-> 0, pos |-> i + 2]
    \* peek: the terminator or the end of input, nothing consumed
    ELSE IF i + 2 > Len(s) \/ s[i + 2] = e
         THEN [kind |-> "Some", val |-> 0, pos |-> i + 2]
    ELSE LET stop  == TakeWhileEnd(s, i + 2, e)
             digit == SubSeq(s, i + 2, stop - 1)
             p     == ParseUsize(digit)
             \* take_while consumes the terminator it stops on
             after == Min(stop + 1, Len(s) + 1)
         IN  IF p.ok THEN [kind |-> "Some", val |-> p.val, pos |-> after]
             ELSE [kind |-> "Panic", val |-> 0, pos |-> after]

(***************************************************************************)
(* escape_chars_to_styling(content).  A run is [text, bold, underline].    *)
(* The result is [panic, elms]: panic is TRUE when find_sgr panicked.      *)
(***************************************************************************)
ScanLimit == 4096

SgrBold(x, bold) ==
    IF x = 0 \/ x = 22 THEN FALSE ELSE IF x = 1 THEN TRUE ELSE bold

SgrUnderlineStays(x, underline) ==
    IF x = 0 \/ x = 22 THEN FALSE
    ELSE IF x = 4 THEN TRUE
    ELSE underline

SgrUnderline(x, underline) ==
    IF x = 0 \/ x = 22 THEN FALSE
    ELSE IF x = 4 THEN TRUE
    ELSE IF x = 24 THEN FALSE
    ELSE underline

Run(text, bold, underline) ==
    [text |-> text, bold |-> bold, underline |-> underline]

RECURSIVE StylingLoop(_, _, _, _, _, _)
StylingLoop(s, i, text, bold, underline, runs) ==
    LET r == find_sgr(s, i, "m")
    IN  CASE r.kind = "Panic" -> [panic |-> TRUE, elms |-> runs]
          [] r.kind = "Some" ->
                StylingLoop(s, r.pos, <<>>,
                            SgrBold(r.val, bold), SgrUnderline(r.val, underline),
                            Append(runs, Run(text, bold, underline)))
          [] r.kind = "None" ->
                IF r.pos <= Len(s)
                THEN StylingLoop(s, r.pos + 1, Append(text, s[r.pos]),
                                 bold, underline, runs)
                ELSE [panic |-> FALSE,
                      elms  |-> IF Len(text) > 0
                                THEN Append(runs, Run(text, bold, underline))
                                ELSE runs]

escape_chars_to_styling(c) ==
    StylingLoop(Take(c, ScanLimit), 1, <<>>, FALSE, FALSE, <<>>)

(***************************************************************************)
(* Inputs of the parser: up to MaxTokens tokens, each a single character   *)
(* or a whole SGR sequence, so that both malformed fragments and several   *)
(* well-formed sequences in one input are covered.                         *)
(***************************************************************************)
SgrChars == {ESC, "[", "m", "1", "4", ";", "K", "x"}

SgrWords ==
    { <<ESC, "[", "m">>, <<ESC, "[", "0", "m">>, <<ESC, "[", "1", "m">>,
      <<ESC, "[", "4", "m">>, <<ESC, "[", "2", "2", "m">>,
      <<ESC, "[", "2", "4", "m">>, <<ESC, "[", "3", "1", "m">>,
      <<"B", "O", "L", "D">>, <<" ", "p", "l", "a", "i", "n">> }

SgrTokens == {<<c>> : c \in SgrChars} \cup SgrWords

RECURSIVE TokenStrings(_, _)
TokenStrings(tokens, k) ==
    IF k = 0 THEN {<<>>}
    ELSE LET shorter == TokenStrings(tokens, k - 1)
         IN  shorter \cup {s \o t : s \in shorter, t \in tokens}

\* a line as man prints it: a bold word, a reset, plain text
BoldLine ==
    <<ESC, "[", "1", "m", "B", "O", "L", "D", ESC, "[", "0", "m",
      " ", "p", "l", "a", "i", "n">>

SgrInputs == TokenStrings(SgrTokens, MaxTokens) \cup {BoldLine}

(***************************************************************************)
(* strip_ansi: ANSI_REGEX.replace_all(string, "").  The regex crate finds  *)
(* leftmost-first matches: at the leftmost position where any alternative  *)
(* matches, the match is the one a backtracking matcher finds first        *)
(* (earlier alternatives first, greedy repetitions longest first, lazy     *)
(* ones shortest first).  Each matcher below takes the 1-based index of    *)
(* the first character of the candidate match and returns the index just   *)
(* after the match, or 0 when there is no match.                           *)
(***************************************************************************)
Maximum(S) == CHOOSE x \in S : \A y \in S : y <= x

\* [\[\]()#;?]
CsiIntermediate == {"[", "]", "(", ")", "#", ";", "?"}

\* [0-9A-PR-TZcf-nq-uy=><~]
CsiFinal ==
    Digits \cup
    {"A", "B", "C", "D", "E", "F", "G", "H", "I", "J", "K", "L", "M", "N",
     "O", "P", "R", "S", "T", "Z", "c", "f", "g", "h", "i", "j", "k", "l",
     "m", "n", "q", "r", "s", "t", "u", "y", "=", ">", "<", "~"}

\* [ABCDHIKJSTZ=><sum78EMcNO]
ShortFinal ==
    {"A", "B", "C", "D", "H", "I", "K", "J", "S", "T", "Z", "=", ">", "<",
     "s", "u", "m", "7", "8", "E", "M", "c", "N", "O"}

\* the number of consecutive characters of class cls starting at index i
RECURSIVE RunLength(_, _, _)
RunLength(s, i, cls) ==
    IF i <= Len(s) /\ s[i] \in cls THEN 1 + RunLength(s, i + 1, cls) ELSE 0

\* [^\x07\x1B\x9C]*?(?:\x07|\x1B\\|\x9C) from index j
RECURSIVE OscTail(_, _)
OscTail(s, j) ==
    IF j > Len(s) THEN 0
    ELSE IF s[j] = BEL \/ s[j] = ST8 THEN j + 1
    ELSE IF s[j] = ESC
         THEN IF j + 1 <= Len(s) /\ s[j + 1] = "\\" THEN j + 2 ELSE 0
    ELSE OscTail(s, j + 1)

\* \x1B\][^\x07\x1B\x9C]*?(?:\x07|\x1B\\|\x9C)
MatchOsc(s, i) ==
    IF i + 1 <= Len(s) /\ s[i] = ESC /\ s[i + 1] = "]"
    THEN OscTail(s, i + 2) ELSE 0

\* the final byte [0-9A-PR-TZcf-nq-uy=><~] at index r
CsiFinalAt(s, r) == IF r <= Len(s) /\ s[r] \in CsiFinal THEN r + 1 ELSE 0

\* (?:[;:][0-9]{0,4})* then the final byte, from index r
RECURSIVE CsiParamTail(_, _)
CsiParamTail(s, r) ==
    IF r <= Len(s) /\ s[r] \in {";", ":"}
    THEN LET dmax == Min(4, RunLength(s, r + 1, Digits))
             ok   == {d \in 0..dmax : CsiParamTail(s, r + 1 + d) # 0}
         IN  IF ok # {} THEN CsiParamTail(s, r + 1 + Maximum(ok))
             ELSE CsiFinalAt(s, r)
    ELSE CsiFinalAt(s, r)

\* (?:[0-9]{1,4}(?:[;:][0-9]{0,4})*)? then the final byte, from index q
CsiParams(s, q) ==
    LET dmax == Min(4, RunLength(s, q, Digits))
        ok   == {d \in 1..dmax : CsiParamTail(s, q + d) # 0}
    IN  IF ok # {} THEN CsiParamTail(s, q + Maximum(ok))
        ELSE CsiFinalAt(s, q)

\* [\[\]()#;?]* and the rest of the CSI alternative, from index p
CsiBody(s, p) ==
    LET imax == RunLength(s, p, CsiIntermediate)
        ok   == {k \in 0..imax : CsiParams(s, p + k) # 0}
    IN  IF ok # {} THEN CsiParams(s, p + Maximum(ok)) ELSE 0

\* \x1B\[ ...
MatchCsi7(s, i) ==
    IF i + 1 <= Len(s) /\ s[i] = ESC /\ s[i + 1] = "["
    THEN CsiBody(s, i + 2) ELSE 0

\* \x9B ...
MatchCsi8(s, i) == IF s[i] = CSI8 THEN CsiBody(s, i + 1) ELSE 0

\* \x1B[ABCDHIKJSTZ=><sum78EMcNO]
MatchShort(s, i) ==
    IF i + 1 <= Len(s) /\ s[i] = ESC /\ s[i + 1] \in ShortFinal
    THEN i + 2 ELSE 0

\* \x1B[()][AB012]
MatchCharset(s, i) ==
    IF /\ i + 2 <= Len(s) /\ s[i] = ESC /\ s[i + 1] \in {"(", ")"}
       /\ s[i + 2] \in {"A", "B", "0", "1", "2"}
    THEN i + 3 ELSE 0

\* \x1B#[34568]
MatchHash(s, i) ==
    IF /\ i + 2 <= Len(s) /\ s[i] = ESC /\ s[i + 1] = "#"
       /\ s[i + 2] \in {"3", "4", "5", "6", "8"}
    THEN i + 3 ELSE 0

\* \x1B[0-9]+n
MatchDsr(s, i) ==
    IF s[i] = ESC
    THEN LET d == RunLength(s, i + 1, Digits)
         IN  IF d >= 1 /\ i + 1 + d <= Len(s) /\ s[i + 1 + d] = "n"
             THEN i + 2 + d ELSE 0
    ELSE 0

\* ANSI_REGEX_PATTERN: the alternatives in their order
AnsiMatch(s, i) ==
    CASE MatchOsc(s, i) # 0     -> MatchOsc(s, i)
      [] MatchCsi7(s, i) # 0    -> MatchCsi7(s, i)
      [] MatchCsi8(s, i) # 0    -> MatchCsi8(s, i)
      [] MatchShort(s, i) # 0   -> MatchShort(s, i)
      [] MatchCharset(s, i) # 0 -> MatchCharset(s, i)
      [] MatchHash(s, i) # 0    -> MatchHash(s, i)
      [] OTHER                  -> MatchDsr(s, i)

\* replace_all(string, ""): one left-to-right sweep over non-overlapping
\* matches, everything else copied
RECURSIVE ReplaceAll(_, _)
ReplaceAll(s, i) ==
    IF i > Len(s) THEN <<>>
    ELSE LET e == AnsiMatch(s, i)
         IN  IF e # 0 THEN ReplaceAll(s, e)
             ELSE <<s[i]>> \o ReplaceAll(s, i + 1)

strip_ansi(s) == ReplaceAll(s, 1)

StripChars ==
    {ESC, CSI8, BEL, ST8, "[", "]", "(", "#", ";", "1", "3", "A", "n", "x",
     "\\"}

StripWords == { <<ESC, "[", "1", "m">>, <<ESC, "[", "1", ";", "3", "1", "m">> }

StripTokens == {<<c>> : c \in StripChars} \cup StripWords

StripInputs == TokenStrings(StripTokens, MaxTokens)

(***************************************************************************)
(* matches(key, query).  A MixedTextContent is [text, highlighted]:        *)
(* highlighted stands for .color(Color::Red).weight(Weight::Bold).  The    *)
(* result is [some, elms]: some = FALSE is None.  Offsets are 0-based as   *)
(* in the source: key[a..b] is SubSeq(key, a + 1, b).                      *)
(***************************************************************************)
Slice(s, a, b) == SubSeq(s, a + 1, b)

Span(text, highlighted) == [text |-> text, highlighted |-> highlighted]

\* str::find: the 0-based offset of the leftmost occurrence of needle in
\* hay, or -1 for None
RECURSIVE FindFrom(_, _, _)
FindFrom(hay, needle, p) ==
    IF p + Len(needle) > Len(hay) THEN -1
    ELSE IF Slice(hay, p, p + Len(needle)) = needle THEN p
    ELSE FindFrom(hay, needle, p + 1)

FindAfterFirst(hay, needle) == FindFrom(hay, needle, 1)

Find(hay, needle) == FindFrom(hay, needle, 0)

\* lines 60-62: the text after the last occurrence
TrailingSpanDropsLast(k, last) ==
    IF last + 1 < Len(k) THEN <<Span(Slice(k, last, Len(k)), FALSE)>> ELSE <<>>

TrailingSpan(k, last) ==
    IF last < Len(k) THEN <<Span(Slice(k, last, Len(k)), FALSE)>> ELSE <<>>

\* lines 64-68: Some(elms) when more than one element was pushed
MatchResultAnyElement(es) ==
    IF Len(es) > 0 THEN [some |-> TRUE, elms |-> es]
    ELSE [some |-> FALSE, elms |-> <<>>]

MatchResult(es) ==
    IF Len(es) > 1 THEN [some |-> TRUE, elms |-> es]
    ELSE [some |-> FALSE, elms |-> <<>>]

\* lines 50-59: the while-let loop
RECURSIVE MatchLoop(_, _, _, _)
MatchLoop(k, q, last, es) ==
    LET pos == Find(Slice(k, last, Len(k)), q)
    IN  IF pos = -1 THEN [last |-> last, elms |-> es]
        ELSE MatchLoop(k, q, last + pos + Len(q),
                       es \o <<Span(Slice(k, last, last + pos), FALSE),
                                 Span(Slice(k, last + pos, last + pos + Len(q)),
                                      TRUE)>>)

matches(k, q) ==
    IF q = <<>> THEN [some |-> TRUE, elms |-> <<Span(k, FALSE)>>]
    ELSE LET l == MatchLoop(k, q, 0, <<>>)
         IN  MatchResult(l.elms \o TrailingSpan(k, l.last))

(***************************************************************************)
(* The candidate list (get_man_pages at start-up): NPages pages, page i    *)
(* with key i.  The titles are chosen so that the prompts of the model     *)
(* keep all, 8, 5, 3 and 0 of the pages.                                   *)
(***************************************************************************)
Title(i) ==
    IF i <= 5 THEN <<"a", "b">>
    ELSE IF i <= 8 THEN <<"b", "a">>
    ELSE <<"c">>

pages == [i \in 1..NPages |-> [key |-> i, title |-> Title(i)]]

\* Picker, lines 376-386: filter_map over pages, kept in order
RECURSIVE FilterPages(_, _)
FilterPages(ps, q) ==
    IF ps = <<>> THEN <<>>
    ELSE LET m == matches(Head(ps).title, q)
         IN  (IF m.some THEN <<[key |-> Head(ps).key, spans |-> m.elms]>>
              ELSE <<>>) \o FilterPages(Tail(ps), q)

\* the keys of a filtered list, in order
Keys(es) == [j \in 1..Len(es) |-> es[j].key]

RECURSIVE Strings(_, _)
Strings(chars, k) ==
    IF k = 0 THEN {<<>>}
    ELSE LET shorter == Strings(chars, k - 1)
         IN  shorter \cup {Append(s, c) : s \in shorter, c \in chars}

MatchChars == {"a", "b", "x"}

(***************************************************************************)
(* Results: the scroll offset, the clamp of the selection and the key      *)
(* handler; Picker: the key memo.  usize values are naturals; the          *)
(* subtractions below never go under 0 on the paths that reach them.       *)
(***************************************************************************)
DefaultHeight == 20

Heights == {MinHeight, PageHeight, DefaultHeight}

PromptChars == {"a", "b"}

\* lines 281-285: the offset follows the selection
RecomputeBeginningEarly(b, idx, h) ==
    IF b > idx THEN idx
    ELSE IF idx > b + h - 2 THEN idx - h + 2
    ELSE b

RecomputeBeginning(b, idx, h) ==
    IF b > idx THEN idx
    ELSE IF idx > b + h - 1 THEN idx - h + 1
    ELSE b

\* lines 297-306: current_idx.set(len - 1) when it is past the end
ClampIdxToLen(idx, n) == IF n # 0 /\ idx >= n THEN n ELSE idx

ClampIdx(idx, n) == IF n # 0 /\ idx >= n THEN n - 1 ELSE idx

\* Results' render, lines 279-306, in the order of the source: the offset is
\* recomputed from the selection as it is, and the selection is clamped
\* afterwards
ResultsRender(b, idx, h, n) ==
    [beginning |-> RecomputeBeginning(b, idx, h), current_idx |-> ClampIdx(idx, n)]

\* isize % : the remainder of the truncated division
TruncRem(a, n) == IF a >= 0 THEN a % n ELSE -((-a) % n)

\* isize::rem_euclid
RemEuclid(a, n) == LET r == TruncRem(a, n) IN IF r < 0 THEN r + n ELSE r

\* lines 315-316: Up and Ctrl-u
NavUpNoWrap(idx, step, n) == IF idx >= step THEN idx - step ELSE 0

NavUp(idx, step, n) == RemEuclid(idx - step, n)

\* lines 317-318: Down and Ctrl-d
NavDownNoWrap(idx, step, n) == Min(idx + step, n - 1)

NavDown(idx, step, n) == (idx + step) % n

NavCodes == {"Up", "Down", "CtrlU", "CtrlD"}

NavTarget(code, idx, n) ==
    CASE code = "Up"    -> NavUp(idx, 1, n)
      [] code = "CtrlU" -> NavUp(idx, 10, n)
      [] code = "Down"  -> NavDown(idx, 1, n)
      [] code = "CtrlD" -> NavDown(idx, 10, n)

\* Picker, lines 390-396: the key handed to Preview, from the keys ks of
\* elms; 0 stands for String::new()
PickerKeyFirst(ks, idx) ==
    IF idx >= Len(ks)
    THEN (IF ks = <<>> THEN 0 ELSE ks[1])
    ELSE ks[idx + 1]

PickerKey(ks, idx) ==
    IF idx >= Len(ks)
    THEN (IF ks = <<>> THEN 0 ELSE ks[Len(ks)])
    ELSE ks[idx + 1]

\* the prompts the TextInput can hold, and the elms memo for each
Prompts == Strings(PromptChars, MaxPromptLen)

ElmsFor == [q \in Prompts |-> Keys(FilterPages(pages, q))]

(***************************************************************************)
(* Preview: update_page, the use_memo that calls it and the futures of     *)
(* use_async_handler, which run concurrently and complete in any order.    *)
(* The text `man` prints for a key at a width, parsed by                   *)
(* escape_chars_to_styling, is represented by the pair of key and width.   *)
(***************************************************************************)
\* Option<width>: <<>> is None, <<w>> is Some(w)
None == <<>>
Some(w) == <<w>>

Widths == {Some(w) : w \in 1..MaxWidth}

PreviewKeys == 0..MaxPreviewKey

Page(k, w) == [key |-> k, width |-> w]

NoContents == [key |-> 0, width |-> None]

\* lines 223-227 and 245-248: the memo calls update_page(current) when the
\* key or the width changed; the future ends at once while the width is not
\* known, and is a fetch in flight otherwise
Spawned(fs, id, k, w) ==
    IF w = None THEN fs ELSE fs \cup {[id |-> id, key |-> k, width |-> w]}

\* lines 239-241: contents.set(...) by a completing future
SetContents(f) == Page(f.key, f.width)

NoSgr == [kind |-> "None", val |-> 0, pos |-> 0]
NoStyled == [panic |-> FALSE, elms |-> <<>>]

(***************************************************************************)
(* Each specification below exercises one component; the variables of the  *)
(* other components stay at their idle values.                             *)
(***************************************************************************)
SgrIdle ==
    /\ content = <<>>
    /\ sgr = NoSgr
    /\ styled = NoStyled
    /\ sgrPc = "idle"

StripIdle ==
    /\ string = <<>>
    /\ stripped = <<>>
    /\ restripped = <<>>
    /\ stripPc = "idle"

NoMatch == [some |-> FALSE, elms |-> <<>>]

MatchIdle ==
    /\ key = <<>>
    /\ query = <<>>
    /\ matched = NoMatch
    /\ filtered = <<>>
    /\ matchPc = "idle"

ResultsIdle ==
    /\ prompt = <<>>
    /\ elms = <<>>
    /\ current_idx = 0
    /\ beginning = 0
    /\ height = DefaultHeight
    /\ nprops = 0
    /\ crashed = FALSE
    /\ event = "idle"

ViewIdle == ResultsIdle /\ current = 0

PreviewIdle ==
    /\ width = None
    /\ inflight = {}
    /\ issued = 0
    /\ requested = NoContents
    /\ contents = NoContents
    /\ previewCrashed = FALSE

(***************************************************************************)
(* SpecSgr: escape_chars_to_styling (and find_sgr at the start of the      *)
(* input) applied to every input of SgrInputs.                             *)
(***************************************************************************)
InitSgr ==
    /\ content \in SgrInputs
    /\ sgr = NoSgr
    /\ styled = NoStyled
    /\ sgrPc = "start"
    /\ StripIdle /\ MatchIdle /\ ViewIdle /\ PreviewIdle

RunStyling ==
    /\ sgrPc = "start"
    /\ sgr' = find_sgr(content, 1, "m")
    /\ styled' = escape_chars_to_styling(content)
    /\ sgrPc' = "done"
    /\ UNCHANGED <<content, stripVars, matchVars, viewVars, previewVars>>

NextSgr == RunStyling

SpecSgr == InitSgr /\ [][NextSgr]_vars

(***************************************************************************)
(* SpecStrip: strip_ansi applied once and then again to its own output.    *)
(***************************************************************************)
InitStrip ==
    /\ string \in StripInputs
    /\ stripped = <<>>
    /\ restripped = <<>>
    /\ stripPc = "start"
    /\ SgrIdle /\ MatchIdle /\ ViewIdle /\ PreviewIdle

StripOnce ==
    /\ stripPc = "start"
    /\ stripped' = strip_ansi(string)
    /\ stripPc' = "once"
    /\ UNCHANGED <<string, restripped, sgrVars, matchVars, viewVars, previewVars>>

StripAgain ==
    /\ stripPc = "once"
    /\ restripped' = strip_ansi(stripped)
    /\ stripPc' = "twice"
    /\ UNCHANGED <<string, stripped, sgrVars, matchVars, viewVars, previewVars>>

NextStrip == StripOnce \/ StripAgain

SpecStrip == InitStrip /\ [][NextStrip]_vars

(***************************************************************************)
(* SpecMatch: matches applied to every key and query of the bounds, and    *)
(* the Picker's filter applied to the candidate list with that query.      *)
(***************************************************************************)
InitMatch ==
    /\ key \in Strings(MatchChars, MaxKeyLen)
    /\ query \in Strings(MatchChars, MaxQueryLen)
    /\ matched = NoMatch
    /\ filtered = <<>>
    /\ matchPc = "start"
    /\ SgrIdle /\ StripIdle /\ ViewIdle /\ PreviewIdle

RunMatches ==
    /\ matchPc = "start"
    /\ matched' = matches(key, query)
    /\ filtered' = FilterPages(pages, query)
    /\ matchPc' = "done"
    /\ UNCHANGED <<key, query, sgrVars, stripVars, viewVars, previewVars>>

NextMatch == RunMatches

SpecMatch == InitMatch /\ [][NextMatch]_vars

(***************************************************************************)
(* SpecView: the Picker with its Results list.  The state starts after the *)
(* first render (empty prompt, every page listed, no rect known yet).      *)
(* Between two renders any number of events may be handled: the key        *)
(* handler works with the nprops of the last render.                       *)
(***************************************************************************)
InitView ==
    /\ prompt = <<>>
    /\ elms = ElmsFor[<<>>]
    /\ current_idx = 0
    /\ beginning = 0
    /\ height = DefaultHeight
    /\ nprops = Len(ElmsFor[<<>>])
    /\ current = PickerKey(ElmsFor[<<>>], 0)
    /\ crashed = FALSE
    /\ event = "render"
    /\ SgrIdle /\ StripIdle /\ MatchIdle /\ PreviewIdle

\* one render pass: Picker (elms, key), then Results (offset, clamp, the
\* handler's nprops, the rows)
Render ==
    /\ ~crashed
    /\ LET es == ElmsFor[prompt]
           r  == ResultsRender(beginning, current_idx, height, Len(es))
       IN  /\ elms' = es
           /\ current' = PickerKey(es, current_idx)
           /\ beginning' = r.beginning
           /\ current_idx' = r.current_idx
           /\ nprops' = Len(es)
    /\ event' = "render"
    /\ UNCHANGED <<prompt, height, crashed, sgrVars, stripVars, matchVars, previewVars>>

\* Up, Down, Ctrl-u, Ctrl-d: the remainder by nprops = 0 panics
Navigate(code) ==
    /\ ~crashed
    /\ IF nprops = 0
       THEN crashed' = TRUE /\ UNCHANGED current_idx
       ELSE current_idx' = NavTarget(code, current_idx, nprops)
            /\ UNCHANGED crashed
    /\ event' = code
    /\ UNCHANGED <<prompt, elms, beginning, height, nprops, current,
                   sgrVars, stripVars, matchVars, previewVars>>

\* TextInput's on_change: a character typed
TypeChar(c) ==
    /\ ~crashed
    /\ Len(prompt) < MaxPromptLen
    /\ prompt' = Append(prompt, c)
    /\ event' = "type"
    /\ UNCHANGED <<elms, current_idx, beginning, height, nprops, current,
                   crashed, sgrVars, stripVars, matchVars, previewVars>>

\* TextInput's on_change: the last character deleted
Backspace ==
    /\ ~crashed
    /\ prompt # <<>>
    /\ prompt' = SubSeq(prompt, 1, Len(prompt) - 1)
    /\ event' = "type"
    /\ UNCHANGED <<elms, current_idx, beginning, height, nprops, current,
                   crashed, sgrVars, stripVars, matchVars, previewVars>>

\* the layout gives Results another rect
Resize(h) ==
    /\ ~crashed
    /\ h # height
    /\ height' = h
    /\ event' = "resize"
    /\ UNCHANGED <<prompt, elms, current_idx, beginning, nprops, current,
                   crashed, sgrVars, stripVars, matchVars, previewVars>>

NextView ==
    \/ Render
    \/ \E code \in NavCodes : Navigate(code)
    \/ \E c \in PromptChars : TypeChar(c)
    \/ Backspace
    \/ \E h \in Heights : Resize(h)

SpecView == InitView /\ [][NextView]_vars

(***************************************************************************)
(* SpecScroll: Results alone, over a list that does not change: the        *)
(* candidate list has n pages, the prompt stays empty and the rect stays   *)
(* as it is.  The state starts after a render with nothing scrolled; the   *)
(* keys move the selection and the component renders again, Picker's elms  *)
(* memo handing in the same list.                                          *)
(***************************************************************************)
InitScroll ==
    /\ \E n \in 1..MaxItems :
          /\ elms = [i \in 1..n |-> i]
          /\ nprops = n
    /\ height \in Heights
    /\ prompt = <<>>
    /\ current_idx = 0
    /\ beginning = 0
    /\ current = 1
    /\ crashed = FALSE
    /\ event = "render"
    /\ SgrIdle /\ StripIdle /\ MatchIdle /\ PreviewIdle

\* a render pass with the prompt unchanged: the elms memo is not recomputed
RenderCached ==
    /\ ~crashed
    /\ LET r == ResultsRender(beginning, current_idx, height, Len(elms))
       IN  /\ current' = PickerKey(elms, current_idx)
           /\ beginning' = r.beginning
           /\ current_idx' = r.current_idx
           /\ nprops' = Len(elms)
    /\ event' = "render"
    /\ UNCHANGED <<prompt, elms, height, crashed, sgrVars, stripVars, matchVars,
                   previewVars>>

NextScroll ==
    \/ RenderCached
    \/ \E code \in NavCodes : Navigate(code)

SpecScroll == InitScroll /\ [][NextScroll]_vars

(***************************************************************************)
(* SpecPreview: the Preview component.  The state starts after the first   *)
(* render (first key, width not known, nothing fetched).  Picker hands in  *)
(* a new key, or the layout a new width, and the component renders;        *)
(* fetches in flight complete in any order.                                *)
(***************************************************************************)
InitPreview ==
    /\ current = 1
    /\ width = None
    /\ inflight = {}
    /\ issued = 0
    /\ requested = NoContents
    /\ contents = NoContents
    /\ previewCrashed = FALSE
    /\ SgrIdle /\ StripIdle /\ MatchIdle /\ ResultsIdle

\* a render of Preview with key k and width w, one of them new
PreviewRender(k, w) ==
    /\ ~previewCrashed
    /\ <<k, w>> # <<current, width>>
    /\ issued < MaxRequests
    /\ current' = k
    /\ width' = w
    /\ inflight' = Spawned(inflight, issued + 1, k, w)
    /\ issued' = IF w = None THEN issued ELSE issued + 1
    /\ requested' = IF w = None THEN requested ELSE Page(k, w)
    /\ UNCHANGED <<contents, previewCrashed, sgrVars, stripVars, matchVars,
                   resultsVars>>

\* Picker's key memo changed
KeyChanged == \E k \in PreviewKeys \ {current} : PreviewRender(k, width)

\* the component's rect changed (or became known)
WidthChanged == \E w \in Widths \ {width} : PreviewRender(current, w)

\* man ran and printed valid UTF-8: the future sets contents
FetchCompleted ==
    \E f \in inflight :
        /\ ~previewCrashed
        /\ contents' = SetContents(f)
        /\ inflight' = inflight \ {f}
        /\ UNCHANGED <<current, width, issued, requested, previewCrashed,
                       sgrVars, stripVars, matchVars, resultsVars>>

\* man could not be run, or its output is not UTF-8: an unwrap panics
FetchFailed ==
    \E f \in inflight :
        /\ ~previewCrashed
        /\ previewCrashed' = TRUE
        /\ inflight' = inflight \ {f}
        /\ UNCHANGED <<current, width, issued, requested, contents,
                       sgrVars, stripVars, matchVars, resultsVars>>

NextPreview == KeyChanged \/ WidthChanged \/ FetchCompleted \/ FetchFailed

SpecPreview == InitPreview /\ [][NextPreview]_vars

(***************************************************************************)
(* Claims.                                                                 *)
(***************************************************************************)

C2_LastRequestWins ==
    (inflight = {} /\ issued > 0 /\ ~previewCrashed)
        => contents = requested

\* C3: with an empty result list a navigation command does not fail and
\* leaves selection and offset unchanged.
C3_NavOnEmptyListIsNoOp ==
    [][(nprops = 0 /\ event' \in NavCodes) =>
           (~crashed' /\ current_idx' = current_idx /\ beginning' = beginning)]_vars

\* the run texts of a result, concatenated in order
RunTexts(runs) == Concat([k \in 1..Len(runs) |-> runs[k].text])

\* C4: escape_chars_to_styling raises no fatal error: for every input,
\* also one whose parameter characters are not all digits or that is cut
\* short, it returns a sequence of runs.
C4_NoFatalError == sgrPc = "done" => ~styled.panic

\* the claim's recognized control sequence at index i: ESC, "[", a possibly
\* empty run of ASCII digits, "m"; the index after it, or 0
RecognizedEnd(s, i) ==
    IF i + 1 <= Len(s) /\ s[i] = ESC /\ s[i + 1] = "["
    THEN LET d == RunLength(s, i + 2, Digits)
         IN  IF i + 2 + d <= Len(s) /\ s[i + 2 + d] = "m"
             THEN i + 3 + d ELSE 0
    ELSE 0

RECURSIVE RemoveRecognized(_, _)
RemoveRecognized(s, i) ==
    IF i > Len(s) THEN <<>>
    ELSE LET e == RecognizedEnd(s, i)
         IN  IF e # 0 THEN RemoveRecognized(s, e)
             ELSE <<s[i]>> \o RemoveRecognized(s, i + 1)

\* every introducer of s starts a recognized control sequence
NoStrayIntroducer(s) ==
    \A i \in 1..Len(s) : s[i] = ESC => RecognizedEnd(s, i) # 0

\* C5: the run texts, concatenated in order, are the scanned part of the
\* input with every recognized control sequence removed in full and every
\* other character kept, in order.  Stated for the inputs on which the
\* parser returns and in which every introducer starts a recognized
\* sequence, so that the characters lost after a stray introducer play no
\* part.
C5_TextReconstruction ==
    (sgrPc = "done" /\ ~styled.panic /\ NoStrayIntroducer(content)) =>
        RunTexts(styled.elms) = RemoveRecognized(Take(content, ScanLimit), 1)

\* C6: strip_ansi is idempotent: stripping the stripped string changes
\* nothing.
C6_StripIdempotent == stripPc = "twice" => restripped = stripped

\* q occurs in k as a contiguous substring
Occurs(q, k) ==
    \E p \in 0..(Len(k) - Len(q)) : SubSeq(k, p + 1, p + Len(q)) = q

SpanTexts(es) == Concat([j \in 1..Len(es) |-> es[j].text])

\* C7: whenever matches returns spans, the span texts concatenated in
\* order are the key.
C7_SpansReconstructKey ==
    (matchPc = "done" /\ matched.some) => SpanTexts(matched.elms) = key

\* a match of a non-empty query with text before, between and after the
\* occurrences
C7_Witness ==
    /\ matchPc = "done" /\ matched.some /\ query # <<>>
    /\ Len(matched.elms) = 5
    /\ \A j \in {1, 3, 5} : matched.elms[j].text # <<>>

\* the keys of the pages whose title satisfies P, in the order of pages
RECURSIVE KeysWhere(_, _)
KeysWhere(ps, q) ==
    IF ps = <<>> THEN <<>>
    ELSE (IF q = <<>> \/ Occurs(q, Head(ps).title) THEN <<Head(ps).key>>
          ELSE <<>>) \o KeysWhere(Tail(ps), q)

\* C8: matches returns None exactly when the query is non-empty and does
\* not occur in the key; the empty query gives exactly one plain span
\* holding the key; the filtered list holds exactly the pages whose title
\* matched.
C8_MatchVersusNoMatch ==
    matchPc = "done" =>
        /\ ~matched.some <=> (query # <<>> /\ ~Occurs(query, key))
        /\ query = <<>> => (matched.some /\ matched.elms = <<Span(key, FALSE)>>)
        /\ Keys(filtered) = KeysWhere(pages, query)

\* a non-empty query that does not occur in a non-empty key, with a
\* filtered list that kept some pages and dropped others
C8_Witness ==
    /\ matchPc = "done" /\ query # <<>> /\ key # <<>> /\ ~matched.some
    /\ Len(filtered) > 0 /\ Len(filtered) < NPages

NavDelta(code) ==
    CASE code = "Up" -> -1 [] code = "CtrlU" -> -10
      [] code = "Down" -> 1 [] code = "CtrlD" -> 10

\* C9: with n > 0 items a move by delta sets the selection to
\* ((selection + delta) mod n + n) mod n, whatever the height, and the
\* result is an index of the list.
C9_WraparoundNavigation ==
    [][(nprops > 0 /\ event' \in NavCodes) =>
           /\ current_idx' =
                  (((current_idx + NavDelta(event')) % nprops) + nprops) % nprops
           /\ current_idx' \in 0..(nprops - 1)]_vars

\* a page step on a list shorter than the step
C9_Witness ==
    /\ event \in {"CtrlU", "CtrlD"} /\ nprops > 0 /\ nprops < 10
    /\ current_idx > 0

\* C10: when the list shrinks to newN > 0 items and the selection is past
\* its end, the render clamps the selection to newN - 1 and draws with the
\* offset recomputed from the clamped selection.
C10_ClampThenRecompute ==
    [][(event' = "render" /\ Len(elms') > 0 /\ current_idx >= Len(elms')) =>
           /\ current_idx' = Len(elms') - 1
           /\ beginning' = RecomputeBeginning(beginning, Len(elms') - 1, height)]_vars

\* C11: when the list is not longer than the window (n <= height), the
\* offset is 0 for every selection in [0, n), after any sequence of
\* navigation moves.
C11_ShortListNeverScrolls ==
    Len(elms) <= height =>
        (beginning = 0 /\ current_idx \in 0..(Len(elms) - 1))

\* n = 5, height = 10, the last row selected and drawn
C11_Witness ==
    /\ event = "render" /\ Len(elms) = 5 /\ height = 10
    /\ current_idx = 4 /\ beginning = 0

\* the offset the spec's recomputeOffset gives
SpecOffset(offset, selection, h) ==
    CASE selection < offset         -> selection
      [] selection > offset + h - 1 -> selection - h + 1
      [] OTHER                      -> offset

\* C14: each recompute sets the offset to the selection if the selection
\* is above the window, to selection - height + 1 if it is below, and
\* leaves it otherwise; with n = 25, height = 10, offset 0 and selection 0,
\* a move by -1 gives selection 24 and the recompute offset 15.
C14_OffsetRecomputation ==
    [][/\ event' = "render" =>
            beginning' = SpecOffset(beginning, current_idx, height)
       /\ (event' = "Up" /\ nprops = 25 /\ current_idx = 0) => current_idx' = 24
       /\ (event' = "render" /\ event = "Up" /\ Len(elms) = 25 /\ height = 10
             /\ beginning = 0 /\ current_idx = 24) =>
            (beginning' = 15 /\ current_idx' = 24)]_vars

\* the state of the example after the move and the render
C14_Witness ==
    /\ event = "render" /\ Len(elms) = 25 /\ height = 10
    /\ current_idx = 24 /\ beginning = 15

\* C12: a failed preview fetch (man cannot be run, an I/O error, output that
\* is not valid text) is a value, not a crash: the failure is never
\* propagated as a fatal error.
C12_FetchFailureIsAValue == ~previewCrashed

\* the digit run of the recognized control sequence at the start of s
LeadingDigitRun(s) == SubSeq(s, 3, 2 + RunLength(s, 3, Digits))

\* C13: when the characters at the cursor are introducer, bracket, a
\* possibly empty run of ASCII digits and the terminator, find_sgr returns
\* the value of the digit run (0 when it is empty) and leaves the cursor
\* immediately after the terminator, for the empty run as for the others.
C13_TokenizerSuccess ==
    (sgrPc = "done" /\ RecognizedEnd(content, 1) # 0) =>
        /\ sgr.kind = "Some"
        /\ sgr.val = DecimalValue(LeadingDigitRun(content), 0)
        /\ sgr.pos = RecognizedEnd(content, 1)

\* C15: when the character at the cursor is not the introducer, find_sgr
\* consumes nothing; when it is the introducer and the next character is
\* not the bracket, only the introducer is dropped and the character after
\* it stays in the stream.
C15_TokenizerFailure ==
    (sgrPc = "done" /\ content # <<>>) =>
        /\ content[1] # ESC => (sgr.kind = "None" /\ sgr.pos = 1)
        /\ (content[1] = ESC /\ Len(content) >= 2 /\ content[2] # "[") =>
               (sgr.kind = "None" /\ sgr.pos = 2)

\* the parameters of the recognized control sequences of s from index i
\* on, in order
RECURSIVE RecognizedParams(_, _)
RecognizedParams(s, i) ==
    IF i > Len(s) THEN <<>>
    ELSE LET e == RecognizedEnd(s, i)
         IN  IF e # 0
             THEN <<DecimalValue(SubSeq(s, i + 2, e - 2), 0)>>
                      \o RecognizedParams(s, e)
             ELSE RecognizedParams(s, i + 1)

\* the index after the last recognized control sequence of s, 1 if none
RECURSIVE LastRecognizedEnd(_, _, _)
LastRecognizedEnd(s, i, last) ==
    IF i > Len(s) THEN last
    ELSE LET e == RecognizedEnd(s, i)
         IN  IF e # 0 THEN LastRecognizedEnd(s, e, e)
             ELSE LastRecognizedEnd(s, i + 1, last)

\* C16: the number of runs is the number of recognized sequences in the
\* scanned input, plus one if the text after the last of them is non-empty;
\* an input without control sequences yields the one run {s, false, false}
\* if it is non-empty and no run if it is empty.  Stated for the inputs on
\* which the parser returns and in which every introducer starts a
\* recognized sequence.
C16_UnconditionalFlush ==
    (sgrPc = "done" /\ ~styled.panic /\ NoStrayIntroducer(content)) =>
        LET s == Take(content, ScanLimit)
            tail == IF LastRecognizedEnd(s, 1, 1) <= Len(s) THEN 1 ELSE 0
        IN  /\ Len(styled.elms) = Len(RecognizedParams(s, 1)) + tail
            /\ (\A i \in 1..Len(s) : s[i] # ESC) =>
                   styled.elms = IF s = <<>> THEN <<>>
                                 ELSE <<Run(s, FALSE, FALSE)>>

\* the attribute state <<bold, underline>> after a sequence with parameter x
AttrStep(st, x) ==
    CASE x \in {0, 22} -> <<FALSE, FALSE>>
      [] x = 1         -> <<TRUE, st[2]>>
      [] x = 4         -> <<st[1], TRUE>>
      [] x = 24        -> <<st[1], FALSE>>
      [] OTHER         -> st

\* the attribute state after the first k parameters of ps
RECURSIVE AttrAfter(_, _)
AttrAfter(ps, k) ==
    IF k = 0 THEN <<FALSE, FALSE>>
    ELSE AttrStep(AttrAfter(ps, k - 1), ps[k])

\* C17: each run carries the attribute state that was active while its text
\* accumulated: the state starts at {false, false} and a recognized
\* sequence with parameter x clears both for 0 and 22, sets bold for 1,
\* sets underline for 4, clears underline for 24 and changes nothing
\* otherwise; ESC[1mBOLD ESC[0m plain gives ("", f, f), ("BOLD", t, f),
\* (" plain", f, f).  Stated for the inputs on which the parser returns and
\* in which every introducer starts a recognized sequence.
C17_AttributeThreading ==
    (sgrPc = "done" /\ ~styled.panic /\ NoStrayIntroducer(content)) =>
        LET ps == RecognizedParams(Take(content, ScanLimit), 1)
            runs == styled.elms
        IN  /\ \A k \in 1..Len(runs) :
                   <<runs[k].bold, runs[k].underline>>
                       = AttrAfter(ps, Min(k - 1, Len(ps)))
            /\ content = BoldLine =>
                   runs = << Run(<<>>, FALSE, FALSE),
                             Run(<<"B", "O", "L", "D">>, TRUE, FALSE),
                             Run(<<" ", "p", "l", "a", "i", "n">>, FALSE, FALSE) >>

\* the example line has been parsed into its three runs
C17_Witness ==
    /\ sgrPc = "done" /\ content = BoldLine /\ ~styled.panic
    /\ Len(styled.elms) = 3 /\ styled.elms[2].bold

\* q occurs in gap \o q before the end of gap: the occurrence taken after
\* gap is not the leftmost one
EarlierOccurrence(gap, q) ==
    \E p \in 0..(Len(gap) - 1) : SubSeq(gap \o q, p + 1, p + Len(q)) = q

\* C18: for a non-empty query that occurs in key the spans are (gap,
\* highlighted occurrence) pairs for the leftmost non-overlapping
\* occurrences, each search starting right after the previous occurrence,
\* then one final plain span only if text remains; every highlighted span
\* is the query, no gap and not the final span contains the query, and a
\* gap is emitted even when empty.  Query "ab", key "xabxab": x, ab*, x, ab*.
C18_HighlightStructure ==
    (matchPc = "done" /\ query # <<>> /\ Occurs(query, key)) =>
        LET es == matched.elms
        IN  /\ matched.some
            /\ Len(es) >= 2
            /\ SpanTexts(es) = key
            /\ \A j \in 1..Len(es) : es[j].highlighted = (j % 2 = 0)
            /\ \A j \in 1..Len(es) :
                   IF j % 2 = 0 THEN es[j].text = query
                   ELSE /\ ~Occurs(query, es[j].text)
                        /\ j < Len(es) => ~EarlierOccurrence(es[j].text, query)
            /\ Len(es) % 2 = 1 => es[Len(es)].text # <<>>
            /\ (key = <<"x", "a", "b", "x", "a", "b">> /\ query = <<"a", "b">>) =>
                   es = << Span(<<"x">>, FALSE), Span(<<"a", "b">>, TRUE),
                           Span(<<"x">>, FALSE), Span(<<"a", "b">>, TRUE) >>

\* the example: two occurrences, each after a gap, nothing after the last
C18_Witness ==
    /\ matchPc = "done" /\ query = <<"a", "b">>
    /\ key = <<"x", "a", "b", "x", "a", "b">>
    /\ matched.some /\ Len(matched.elms) = 4

\* the selection is an index of the list and lies inside the window
ViewportHolds ==
    /\ 0 <= current_idx /\ current_idx < Len(elms)
    /\ beginning <= current_idx /\ current_idx <= beginning + height - 1

\* one more render of Results would leave selection and offset as they are
Settled ==
    /\ RecomputeBeginning(beginning, current_idx, height) = beginning
    /\ ClampIdx(current_idx, Len(elms)) = current_idx

\* C19: with n > 0 and height >= 1, at most two consecutive renders with
\* no event in between reach a state in which the viewport invariant holds
\* and which every further render leaves unchanged in selection and offset:
\* a render after a render ends in such a state, and a state that a render
\* leaves unchanged is such a state.
C19_RenderFixedPoint ==
    /\ []((event = "render" /\ Len(elms) > 0 /\ Settled) => ViewportHolds)
    /\ [][(event = "render" /\ event' = "render" /\ Len(elms') > 0) =>
             (ViewportHolds' /\ Settled')]_vars

\* a shorter list drawn at rest with its last row selected and rows
\* scrolled off above: the state two renders reach after the list shrank
\* under a selection past its end
C19_Witness ==
    /\ event = "render" /\ Settled /\ ViewportHolds
    /\ Len(elms) < NPages /\ current_idx = Len(elms) - 1 /\ beginning > 0

\* C20: after any sequence of query changes and navigation moves the key
\* Picker passes to Preview is the key of the entry at the clamped
\* selection min(current_idx, n - 1) of the filtered list, the row Results
\* highlights once it has clamped current_idx; it is the empty string
\* exactly when the filtered list is empty.
C20_PreviewFollowsSelection ==
    [][event' = "render" =>
          LET n == Len(elms')
          IN  /\ current' = 0 <=> n = 0
              /\ n > 0 =>
                    /\ current' = elms'[Min(current_idx, n - 1) + 1]
                    /\ current_idx' = Min(current_idx, n - 1)
                    /\ current' = elms'[current_idx' + 1]]_vars

\* a filtered list drawn with its last row selected and previewed
C20_Witness ==
    /\ event = "render" /\ prompt # <<>> /\ elms # <<>>
    /\ current_idx = Len(elms) - 1 /\ current = elms[Len(elms)]

=============================================================================
